---- MODULE Spec2Model ----
(***************************************************************************)
(* tren: a three-worker pipeline over a CSV transaction journal.           *)
(*   Parser     (parser.rs, CsvParser::parse_journal)                      *)
(*   Resolver   (dispute_look_up.rs, DisputeFinder)                        *)
(*   Aggregator (main.rs, the transaction processing thread; accounts.rs)  *)
(* The journal is a sequence of records.  A field of a record is kept as   *)
(* the text it holds: its content with whitespace removed (v or w) and a   *)
(* quality q telling whether the raw bytes are plain, hold embedded        *)
(* spaces, or are no number at all.  Amounts are exact decimals; the model *)
(* counts them in whole units.  Journals are UTF-8 with four fields per    *)
(* row (spec section 6); the header row is not a record of the model.      *)
(***************************************************************************)
EXTENDS Integers, Sequences, FiniteSets, TLC

VARIABLES
    journal,    \* the file, read by the Parser and re-read by the Resolver
    cap,        \* capacity of the transaction channel (main.rs: 10_000)
    p_pc,       \* Parser: "run", "done" (end of file), "failed" (parse error)
    p_idx,      \* Parser: number of records consumed from the journal
    lookq,      \* dispute look-up channel (unbounded), Parser -> Resolver
    txq,        \* transaction channel (bounded), Parser + Resolver -> Aggregator
    r_pc,       \* Resolver: "recv", "send" (a message is ready to send), "done"
    r_req,      \* Resolver: the request being answered while r_pc = "send"
    r_msg,      \* Resolver: the message being sent while r_pc = "send"
    cache,      \* DisputeFinder.cache: TransactionID -> Amount
    a_pc,       \* Aggregator: "run", "done" (returned the account table)
    accounts,   \* Accounts: ClientID -> AccountDetails
    lookups,    \* history: the outcome of each look-up request the Resolver took
    applied,    \* history: what the Aggregator applied, with the table before it
    enq,        \* history: every message accepted by the transaction channel
    send_fail   \* history: number of sends that found the receiver gone

vars == <<journal, cap, p_pc, p_idx, lookq, txq, r_pc, r_req, r_msg, cache, a_pc,
          accounts, lookups, applied, enq, send_fail>>

----------------------------------------------------------------------------
\* Bounds of the model.

MaxLen == 3
TxQueueCap == 2

----------------------------------------------------------------------------
\* Journal records.

DepositTypes == {"deposit", "withdrawal"}
DisputeTypes == {"dispute", "resolve", "chargeback"}
RecordTypes == DepositTypes \cup DisputeTypes

Tok(w, q) == [w |-> w, q |-> q]
Num(v, q) == [v |-> v, q |-> q]
Rec(ty, cl, tx, am) == [ty |-> ty, cl |-> cl, tx |-> tx, am |-> am]

\* The amount column of a dispute, resolve or chargeback row is empty.
NoAmount == Num(0, "junk")

Plain(kind, client, tx, amount) ==
    Rec(Tok(kind, "plain"), Num(client, "plain"), Num(tx, "plain"),
        Num(amount, "plain"))

LookUpRec(kind, client, tx) ==
    Rec(Tok(kind, "plain"), Num(client, "plain"), Num(tx, "plain"), NoAmount)

\* Two clients whose transactions share id 1, and a second id for client 1.
DepositRecords ==
    { Plain("deposit", 1, 1, 5), Plain("deposit", 1, 2, 10),
      Plain("deposit", 2, 1, 10), Plain("withdrawal", 1, 2, 5) }

DisputeRecords ==
    { LookUpRec(k, c, 1) : k \in DisputeTypes, c \in {1, 2} }

\* A row of unknown type and a deposit whose amount is no decimal.
OddRecords ==
    { Plain("transfer", 1, 1, 5),
      Rec(Tok("deposit", "plain"), Num(1, "plain"), Num(2, "plain"),
          Num(0, "junk")) }

Records == DepositRecords \cup DisputeRecords \cup OddRecords

SeqsUpTo(S, n) == UNION { [1..k -> S] : k \in 0..n }

\* Scenario D of the specification.
ScenarioD == << Plain("deposit", 1, 1, 5), Plain("withdrawal", 1, 2, 10) >>

\* Scenario E of the specification.
ScenarioE == << LookUpRec("dispute", 9, 1) >>

Journals == SeqsUpTo(Records, MaxLen) \cup {ScenarioD, ScenarioE}

\* The journals of the parsing claims: one client, rows with embedded spaces
\* in each field, rows that do not parse, and look-ups of both ids.
SpacedType ==
    Rec(Tok("deposit", "spaced"), Num(1, "plain"), Num(2, "plain"),
        Num(10, "plain"))
SpacedAmount ==
    Rec(Tok("deposit", "plain"), Num(1, "plain"), Num(1, "plain"),
        Num(5, "spaced"))
SpacedClient ==
    Rec(Tok("deposit", "plain"), Num(1, "spaced"), Num(1, "plain"),
        Num(5, "plain"))
SpacedTx ==
    Rec(Tok("withdrawal", "plain"), Num(1, "plain"), Num(1, "spaced"),
        Num(5, "plain"))
JunkAmount ==
    Rec(Tok("deposit", "plain"), Num(1, "plain"), Num(1, "plain"),
        Num(0, "junk"))
JunkDispute ==
    Rec(Tok("dispute", "plain"), Num(1, "plain"), Num(0, "junk"), NoAmount)

ParseRecords ==
    { Plain("deposit", 1, 1, 5), Plain("deposit", 1, 2, 10),
      Plain("withdrawal", 1, 2, 5),
      LookUpRec("dispute", 1, 1), LookUpRec("resolve", 1, 2),
      LookUpRec("chargeback", 1, 2),
      Plain("transfer", 1, 1, 5),
      SpacedType, SpacedAmount, SpacedClient, SpacedTx, JunkAmount,
      JunkDispute }

\* A look-up whose re-scan runs into the malformed row, followed by one that
\* finds its row before it.
RescanErrorJournal ==
    << Plain("deposit", 1, 1, 5), LookUpRec("resolve", 1, 2),
       LookUpRec("dispute", 1, 1), JunkAmount >>

\* A deposit whose type has an embedded space, then its dispute.
SpacedTypeJournal == << SpacedType, LookUpRec("dispute", 1, 2) >>

ParseJournals ==
    SeqsUpTo(ParseRecords, MaxLen) \cup {RescanErrorJournal, SpacedTypeJournal}

----------------------------------------------------------------------------
\* Results.

Ok(v) == [ok |-> TRUE, v |-> v]
Err == [ok |-> FALSE, v |-> 0]

----------------------------------------------------------------------------
\* Field parsing (parser.rs).

\* Removing the ASCII whitespace of a field leaves its content.
StripWs(f) == [f EXCEPT !.q = IF @ = "spaced" THEN "plain" ELSE @]

\* A match whose last arm takes every other type for a deposit.
MatchType_UnknownIsDeposit(tok) ==
    IF tok.q = "plain" /\ tok.w \in RecordTypes THEN Ok(tok.w) ELSE Ok("deposit")

\* The match of the type bytes against the five literals.
MatchType(tok) ==
    IF tok.q = "plain" /\ tok.w \in RecordTypes THEN Ok(tok.w) ELSE Err

ParseType(tok) ==
    IF tok.q = "spaced" THEN MatchType(StripWs(tok)) ELSE MatchType(tok)

\* str::parse::<u16>() and str::parse::<u32>(): digits only.
ParseInt(f) == IF f.q = "plain" THEN Ok(f.v) ELSE Err

\* Decimal::from_str_exact.
ParseDecimal(f) == IF f.q = "plain" THEN Ok(f.v) ELSE Err

\* An amount parsed as it stands.
ParseAmount_NoStrip(f) == ParseDecimal(f)

ParseAmount(f) ==
    IF f.q = "spaced" THEN ParseDecimal(StripWs(f)) ELSE ParseDecimal(f)

ParseDepositOrWithdrawal(rec) ==
    LET amount == ParseAmount(rec.am)
        client == ParseInt(rec.cl)
        tx == ParseInt(rec.tx)
    IN  IF amount.ok /\ client.ok /\ tx.ok
        THEN [ok |-> TRUE, client_id |-> client.v, transaction_id |-> tx.v,
              amount |-> amount.v]
        ELSE [ok |-> FALSE, client_id |-> 0, transaction_id |-> 0, amount |-> 0]

ParseDisputeData(rec) ==
    LET client == ParseInt(rec.cl)
        tx == ParseInt(rec.tx)
    IN  IF client.ok /\ tx.ok
        THEN [ok |-> TRUE, client_id |-> client.v, transaction_id |-> tx.v]
        ELSE [ok |-> FALSE, client_id |-> 0, transaction_id |-> 0]

----------------------------------------------------------------------------
\* Messages and channels (channel.rs, main.rs).

\* by and idx are history tags: the worker that sent the message and the
\* journal position of the record it answers.
TransactionMessage(kind, client_id, amount, by, idx) ==
    [kind |-> kind, client_id |-> client_id, amount |-> amount,
     by |-> by, idx |-> idx]

DisputeLookUpMessage(kind, client_id, transaction_id, idx) ==
    [kind |-> kind, client_id |-> client_id, transaction_id |-> transaction_id,
     idx |-> idx]

NoMsg == TransactionMessage("none", 0, 0, "none", 0)
NoReq == DisputeLookUpMessage("none", 0, 0, 0)

\* Senders that are dropped only when the parse reaches the end of the file.
ParserExited_OnlyAtEof == p_pc = "done"

\* parse_journal has returned, at the end of the file or with an error: the
\* closure of the parser thread ends and its two senders are dropped.
ParserExited == p_pc \in {"done", "failed"}

\* The receiver of the transaction channel lives as long as the Aggregator.
TxReceiverGone == a_pc = "done"

\* The receiver of the look-up channel lives as long as the Resolver.
LookReceiverGone == r_pc = "done"

\* A channel that hands out the newest message first.
SendTx_Lifo(m) ==
    IF TxReceiverGone
    THEN send_fail' = send_fail + 1 /\ UNCHANGED <<txq, enq>>
    ELSE /\ Len(txq) < cap
         /\ txq' = <<m>> \o txq
         /\ enq' = Append(enq, m)
         /\ UNCHANGED send_fail

\* Sender::send on the bounded channel: blocks while the channel is full,
\* fails (logged, message lost) when the receiver is gone.
SendTx(m) ==
    IF TxReceiverGone
    THEN /\ send_fail' = send_fail + 1
         /\ UNCHANGED <<txq, enq>>
    ELSE /\ Len(txq) < cap
         /\ txq' = Append(txq, m)
         /\ enq' = Append(enq, m)
         /\ UNCHANGED send_fail

\* Sender::send on the unbounded channel: never blocks.
SendLookUp(m) ==
    IF LookReceiverGone
    THEN /\ send_fail' = send_fail + 1
         /\ UNCHANGED lookq
    ELSE /\ lookq' = Append(lookq, m)
         /\ UNCHANGED send_fail

----------------------------------------------------------------------------
\* Parser: CsvParser::parse_journal, one action per arm of its match.

HasRecord == p_pc = "run" /\ p_idx < Len(journal)
NextRecord == journal[p_idx + 1]

ParseTx(kind) ==
    /\ HasRecord
    /\ LET ty == ParseType(NextRecord.ty)
           d == ParseDepositOrWithdrawal(NextRecord)
       IN  /\ ty.ok /\ ty.v = kind
           /\ d.ok
           /\ SendTx(TransactionMessage(kind, d.client_id, d.amount,
                                        "parser", p_idx + 1))
    /\ p_idx' = p_idx + 1
    /\ UNCHANGED <<journal, cap, p_pc, lookq, r_pc, r_req, r_msg, cache, a_pc, accounts,
                   lookups, applied>>

ParseDeposit == ParseTx("deposit")
ParseWithdrawal == ParseTx("withdrawal")

ParseLookUp(kind) ==
    /\ HasRecord
    /\ LET ty == ParseType(NextRecord.ty)
           d == ParseDisputeData(NextRecord)
       IN  /\ ty.ok /\ ty.v = kind
           /\ d.ok
           /\ SendLookUp(DisputeLookUpMessage(kind, d.client_id,
                                              d.transaction_id, p_idx + 1))
    /\ p_idx' = p_idx + 1
    /\ UNCHANGED <<journal, cap, p_pc, txq, r_pc, r_req, r_msg, cache, a_pc, accounts,
                   lookups, applied, enq>>

ParseDispute == ParseLookUp("dispute")
ParseResolve == ParseLookUp("resolve")
ParseChargeback == ParseLookUp("chargeback")

\* The arm "_ => ()": a type that is none of the five is skipped.
ParseSkip ==
    /\ HasRecord
    /\ ~ParseType(NextRecord.ty).ok
    /\ p_idx' = p_idx + 1
    /\ UNCHANGED <<journal, cap, p_pc, lookq, txq, r_pc, r_req, r_msg, cache, a_pc,
                   accounts, lookups, applied, enq, send_fail>>

\* A loop that goes on to the next record when a field does not parse.
ParseFail_SkipsRecord ==
    /\ HasRecord
    /\ LET ty == ParseType(NextRecord.ty)
       IN  /\ ty.ok
           /\ \/ ty.v \in DepositTypes /\ ~ParseDepositOrWithdrawal(NextRecord).ok
              \/ ty.v \in DisputeTypes /\ ~ParseDisputeData(NextRecord).ok
    /\ p_idx' = p_idx + 1
    /\ UNCHANGED <<journal, cap, p_pc, lookq, txq, r_pc, r_req, r_msg, cache, a_pc,
                   accounts, lookups, applied, enq, send_fail>>

\* The "?" on a field that does not parse: parse_journal returns the error
\* and both senders are dropped.
ParseFail ==
    /\ HasRecord
    /\ LET ty == ParseType(NextRecord.ty)
       IN  /\ ty.ok
           /\ \/ ty.v \in DepositTypes /\ ~ParseDepositOrWithdrawal(NextRecord).ok
              \/ ty.v \in DisputeTypes /\ ~ParseDisputeData(NextRecord).ok
    /\ p_pc' = "failed"
    /\ UNCHANGED <<journal, cap, p_idx, lookq, txq, r_pc, r_req, r_msg, cache, a_pc,
                   accounts, lookups, applied, enq, send_fail>>

\* End of file: parse_journal returns Ok and both senders are dropped.
ParseEof ==
    /\ p_pc = "run"
    /\ p_idx = Len(journal)
    /\ p_pc' = "done"
    /\ UNCHANGED <<journal, cap, p_idx, lookq, txq, r_pc, r_req, r_msg, cache, a_pc,
                   accounts, lookups, applied, enq, send_fail>>

----------------------------------------------------------------------------
\* Resolver: DisputeFinder (dispute_look_up.rs) and its re-scan of the
\* journal, CsvParser::find_transaction (parser.rs).

NotFound == [ok |-> FALSE, amount |-> 0, src |-> 0]

\* The bytes of the type field are compared with b"withdrawal" | b"deposit".
IsDepositBytes(tok) == tok.q = "plain" /\ tok.w \in DepositTypes

\* The loop of find_transaction from record i on; src is the position of the
\* record returned.
RECURSIVE ScanFrom(_, _, _, _)
ScanFrom(jr, i, client_id, transaction_id) ==
    IF i > Len(jr) THEN NotFound
    ELSE IF IsDepositBytes(jr[i].ty)
    THEN LET d == ParseDepositOrWithdrawal(jr[i])
         IN  IF ~d.ok THEN NotFound
             ELSE IF d.client_id = client_id /\ transaction_id = d.transaction_id
             THEN [ok |-> TRUE, amount |-> d.amount, src |-> i]
             ELSE IF d.transaction_id > transaction_id THEN NotFound
             ELSE ScanFrom(jr, i + 1, client_id, transaction_id)
    ELSE ScanFrom(jr, i + 1, client_id, transaction_id)

\* A scan of the whole journal that skips rows that do not parse and never
\* stops early.
FindTransaction_FullScan(jr, client_id, transaction_id) ==
    LET hits == { i \in DOMAIN jr :
                    /\ IsDepositBytes(jr[i].ty)
                    /\ ParseDepositOrWithdrawal(jr[i]).ok
                    /\ ParseDepositOrWithdrawal(jr[i]).client_id = client_id
                    /\ ParseDepositOrWithdrawal(jr[i]).transaction_id =
                          transaction_id }
    IN  IF hits = {} THEN NotFound
        ELSE LET i == CHOOSE x \in hits : \A y \in hits : x <= y
             IN  [ok |-> TRUE, amount |-> ParseDepositOrWithdrawal(jr[i]).amount,
                  src |-> i]

\* seek to the start, then scan.
FindTransaction(jr, client_id, transaction_id) ==
    ScanFrom(jr, 1, client_id, transaction_id)

CacheInsert(ch, transaction_id, amount) ==
    [k \in DOMAIN ch \cup {transaction_id} |->
        IF k = transaction_id THEN amount ELSE ch[k]]

\* A resolve or chargeback that leaves the entry in the cache.
RemoveFromCache_Keeps(ch, transaction_id) == ch

RemoveFromCache(ch, transaction_id) ==
    [k \in DOMAIN ch \ {transaction_id} |-> ch[k]]

\* A look-up that caches a zero amount for a transaction it did not find.
FindDisputeAmount_CachesFailure(ch, jr, client_id, transaction_id) ==
    IF transaction_id \in DOMAIN ch
    THEN [ok |-> TRUE, amount |-> ch[transaction_id], hit |-> TRUE, src |-> 0,
          cache |-> ch]
    ELSE LET f == FindTransaction(jr, client_id, transaction_id)
         IN  IF f.ok
             THEN [ok |-> TRUE, amount |-> f.amount, hit |-> FALSE,
                   src |-> f.src,
                   cache |-> CacheInsert(ch, transaction_id, f.amount)]
             ELSE [ok |-> FALSE, amount |-> 0, hit |-> FALSE, src |-> 0,
                   cache |-> CacheInsert(ch, transaction_id, 0)]

\* find_dispute_amount: the answer, whether the cache gave it, and the cache
\* it leaves.
FindDisputeAmount(ch, jr, client_id, transaction_id) ==
    IF transaction_id \in DOMAIN ch
    THEN [ok |-> TRUE, amount |-> ch[transaction_id], hit |-> TRUE, src |-> 0,
          cache |-> ch]
    ELSE LET f == FindTransaction(jr, client_id, transaction_id)
         IN  IF f.ok
             THEN [ok |-> TRUE, amount |-> f.amount, hit |-> FALSE,
                   src |-> f.src,
                   cache |-> CacheInsert(ch, transaction_id, f.amount)]
             ELSE [ok |-> FALSE, amount |-> 0, hit |-> FALSE, src |-> 0,
                   cache |-> ch]

\* A loop that returns the error of a look-up instead of logging it.
ResolverLookUp_StopsOnError ==
    /\ r_pc = "recv"
    /\ lookq # <<>>
    /\ LET req == Head(lookq)
           f == FindDisputeAmount(cache, journal, req.client_id,
                                  req.transaction_id)
       IN  /\ cache' = f.cache
           /\ lookups' = Append(lookups,
                  [req |-> req, ok |-> f.ok, amount |-> f.amount,
                   hit |-> f.hit, src |-> f.src])
           /\ IF f.ok
              THEN /\ r_pc' = "send"
                   /\ r_req' = req
                   /\ r_msg' = TransactionMessage(req.kind, req.client_id,
                                                  f.amount, "resolver", req.idx)
              ELSE r_pc' = "done" /\ UNCHANGED <<r_req, r_msg>>
    /\ lookq' = Tail(lookq)
    /\ UNCHANGED <<journal, cap, p_pc, p_idx, txq, a_pc, accounts, applied, enq,
                   send_fail>>

\* receiver.recv() gave a request; find_dispute_amount answers it.  Found:
\* the message is built and the Resolver goes on to send it.  Not found: the
\* error is logged and the request dropped.
ResolverLookUp ==
    /\ r_pc = "recv"
    /\ lookq # <<>>
    /\ LET req == Head(lookq)
           f == FindDisputeAmount(cache, journal, req.client_id,
                                  req.transaction_id)
       IN  /\ cache' = f.cache
           /\ lookups' = Append(lookups,
                  [req |-> req, ok |-> f.ok, amount |-> f.amount,
                   hit |-> f.hit, src |-> f.src])
           /\ IF f.ok
              THEN /\ r_pc' = "send"
                   /\ r_req' = req
                   /\ r_msg' = TransactionMessage(req.kind, req.client_id,
                                                  f.amount, "resolver", req.idx)
              ELSE UNCHANGED <<r_pc, r_req, r_msg>>
    /\ lookq' = Tail(lookq)
    /\ UNCHANGED <<journal, cap, p_pc, p_idx, txq, a_pc, accounts, applied, enq,
                   send_fail>>

\* sender.send(..), then for a resolve or a chargeback remove_from_cache.
ResolverSend ==
    /\ r_pc = "send"
    /\ SendTx(r_msg)
    /\ cache' = IF r_req.kind \in {"resolve", "chargeback"}
                THEN RemoveFromCache(cache, r_req.transaction_id)
                ELSE cache
    /\ r_pc' = "recv"
    /\ r_req' = NoReq
    /\ r_msg' = NoMsg
    /\ UNCHANGED <<journal, cap, p_pc, p_idx, lookq, a_pc, accounts, lookups,
                   applied>>

\* receiver.recv() fails: the channel is empty and the Parser dropped its
\* sender.  The loop ends and the Resolver's transaction sender is dropped.
ResolverExit ==
    /\ r_pc = "recv"
    /\ lookq = <<>>
    /\ ParserExited
    /\ r_pc' = "done"
    /\ UNCHANGED <<journal, cap, p_pc, p_idx, lookq, txq, r_req, r_msg, cache, a_pc,
                   accounts, lookups, applied, enq, send_fail>>

----------------------------------------------------------------------------
\* Account Ledger (accounts.rs).

AccountDetails(account_status, total, available, held) ==
    [account_status |-> account_status, total |-> total,
     available |-> available, held |-> held]

Default == AccountDetails("Active", 0, 0, 0)

increase_balance(self, amount) ==
    [self EXCEPT !.total = @ + amount, !.available = @ + amount]

decrease_balance(self, amount) ==
    [self EXCEPT !.total = @ - amount, !.available = @ - amount]

AccountDetails_deposit(self, amount) == increase_balance(self, amount)

AccountDetails_withdraw(self, amount) == decrease_balance(self, amount)

AccountDetails_dispute(self, amount) ==
    [self EXCEPT !.held = @ + amount, !.available = @ - amount]

\* A resolve that also reactivates the account.
AccountDetails_resolve_Reactivates(self, amount) ==
    [self EXCEPT !.held = @ - amount, !.available = @ + amount,
                 !.account_status = "Active"]

\* A resolve that releases the held funds without returning them.
AccountDetails_resolve_KeepsAvailable(self, amount) ==
    [self EXCEPT !.held = @ - amount]

AccountDetails_resolve(self, amount) ==
    [self EXCEPT !.held = @ - amount, !.available = @ + amount]

\* A chargeback that forgets to take the funds out of the total.
AccountDetails_chargeback_KeepsTotal(self, amount) ==
    [self EXCEPT !.held = @ - amount, !.account_status = "Frozen"]

\* A chargeback that takes the funds out of available instead of held.
AccountDetails_chargeback_TakesAvailable(self, amount) ==
    [self EXCEPT !.available = @ - amount, !.total = @ - amount,
                 !.account_status = "Frozen"]

AccountDetails_chargeback(self, amount) ==
    [self EXCEPT !.held = @ - amount, !.total = @ - amount,
                 !.account_status = "Frozen"]

\* HashMap::entry(client_id).or_insert_with(AccountDetails::default)
OrInsertDefault(accs, client_id) ==
    [c \in DOMAIN accs \cup {client_id} |->
        IF c \in DOMAIN accs THEN accs[c] ELSE Default]

Done(accs, res) == [accounts |-> accs, res |-> res]

Accounts_deposit(accs, client_id, amount) ==
    LET a == OrInsertDefault(accs, client_id)
    IN  Done([a EXCEPT ![client_id] = AccountDetails_deposit(@, amount)], "ok")

\* A withdrawal without the check of the available funds.
Accounts_withdraw_Unchecked(accs, client_id, amount) ==
    LET a == OrInsertDefault(accs, client_id)
    IN  Done([a EXCEPT ![client_id] = AccountDetails_withdraw(@, amount)], "ok")

\* A withdrawal that is refused on a frozen account.
Accounts_withdraw_FrozenRejects(accs, client_id, amount) ==
    LET a == OrInsertDefault(accs, client_id)
    IN  IF a[client_id].account_status = "Frozen"
           \/ amount > a[client_id].available
        THEN Done(a, "rejected")
        ELSE Done([a EXCEPT ![client_id] = AccountDetails_withdraw(@, amount)],
                  "ok")

Accounts_withdraw(accs, client_id, amount) ==
    LET a == OrInsertDefault(accs, client_id)
    IN  IF amount > a[client_id].available
        THEN Done(a, "rejected")
        ELSE Done([a EXCEPT ![client_id] = AccountDetails_withdraw(@, amount)],
                  "ok")

\* A dispute that creates the account it does not find.
Accounts_dispute_Creates(accs, client_id, amount) ==
    LET a == OrInsertDefault(accs, client_id)
    IN  Done([a EXCEPT ![client_id] = AccountDetails_dispute(@, amount)], "ok")

Accounts_dispute(accs, client_id, amount) ==
    IF client_id \in DOMAIN accs
    THEN Done([accs EXCEPT ![client_id] = AccountDetails_dispute(@, amount)],
              "ok")
    ELSE Done(accs, "err")

Accounts_resolve(accs, client_id, amount) ==
    IF client_id \in DOMAIN accs
    THEN Done([accs EXCEPT ![client_id] = AccountDetails_resolve(@, amount)],
              "ok")
    ELSE Done(accs, "err")

Accounts_chargeback(accs, client_id, amount) ==
    IF client_id \in DOMAIN accs
    THEN Done([accs EXCEPT ![client_id] = AccountDetails_chargeback(@, amount)],
              "ok")
    ELSE Done(accs, "err")

----------------------------------------------------------------------------
\* Aggregator: the transaction processing thread of main, one action per
\* arm of its match.

Received(kind) == a_pc = "run" /\ txq # <<>> /\ Head(txq).kind = kind

Apply(r) ==
    /\ accounts' = r.accounts
    /\ applied' = Append(applied,
           [msg |-> Head(txq), res |-> r.res, pre |-> accounts])
    /\ txq' = Tail(txq)
    /\ UNCHANGED <<journal, cap, p_pc, p_idx, lookq, r_pc, r_req, r_msg, cache, a_pc,
                   lookups, enq, send_fail>>

AggDeposit ==
    /\ Received("deposit")
    /\ Apply(Accounts_deposit(accounts, Head(txq).client_id, Head(txq).amount))

AggWithdrawal ==
    /\ Received("withdrawal")
    /\ Apply(Accounts_withdraw(accounts, Head(txq).client_id, Head(txq).amount))

AggDispute ==
    /\ Received("dispute")
    /\ Apply(Accounts_dispute(accounts, Head(txq).client_id, Head(txq).amount))

AggResolve ==
    /\ Received("resolve")
    /\ Apply(Accounts_resolve(accounts, Head(txq).client_id, Head(txq).amount))

AggChargeback ==
    /\ Received("chargeback")
    /\ Apply(Accounts_chargeback(accounts, Head(txq).client_id,
                                 Head(txq).amount))

\* An Aggregator that stops as soon as the Parser is gone and the channel
\* is empty, whatever the Resolver still has to send.
AggExit_IgnoresResolver ==
    /\ a_pc = "run"
    /\ txq = <<>>
    /\ ParserExited
    /\ a_pc' = "done"
    /\ UNCHANGED <<journal, cap, p_pc, p_idx, lookq, txq, r_pc, r_req, r_msg, cache,
                   accounts, lookups, applied, enq, send_fail>>

\* tx_receiver.recv() fails: the channel is empty and both senders are
\* dropped.  The thread returns the account table.
AggExit ==
    /\ a_pc = "run"
    /\ txq = <<>>
    /\ ParserExited
    /\ r_pc = "done"
    /\ a_pc' = "done"
    /\ UNCHANGED <<journal, cap, p_pc, p_idx, lookq, txq, r_pc, r_req, r_msg, cache,
                   accounts, lookups, applied, enq, send_fail>>

----------------------------------------------------------------------------
\* The pipeline.

EmptyMap == [x \in {} |-> 0]

\* The state after main has built the channels, the threads and the table.
Start ==
    /\ p_pc = "run"
    /\ p_idx = 0
    /\ lookq = <<>>
    /\ txq = <<>>
    /\ r_pc = "recv"
    /\ r_req = NoReq
    /\ r_msg = NoMsg
    /\ cache = EmptyMap
    /\ a_pc = "run"
    /\ accounts = EmptyMap
    /\ lookups = <<>>
    /\ applied = <<>>
    /\ enq = <<>>
    /\ send_fail = 0

Init == journal \in Journals /\ cap = TxQueueCap /\ Start

Parser ==
    \/ ParseDeposit
    \/ ParseWithdrawal
    \/ ParseDispute
    \/ ParseResolve
    \/ ParseChargeback
    \/ ParseSkip
    \/ ParseFail
    \/ ParseEof

Resolver ==
    \/ ResolverLookUp
    \/ ResolverSend
    \/ ResolverExit

Aggregator ==
    \/ AggDeposit
    \/ AggWithdrawal
    \/ AggDispute
    \/ AggResolve
    \/ AggChargeback
    \/ AggExit

Next == Parser \/ Resolver \/ Aggregator

Spec == Init /\ [][Next]_vars

\* The journals of client 1 alone: termination does not depend on whose
\* account a record names.
FairJournals == SeqsUpTo({ r \in Records : r.cl.v = 1 }, MaxLen)

FairInit == journal \in FairJournals /\ cap = TxQueueCap /\ Start

\* The pipeline over the journals of the parsing claims.
ParseInit == journal \in ParseJournals /\ cap = TxQueueCap /\ Start

ParseSpec == ParseInit /\ [][Next]_vars

\* The three workers are operating-system threads: each one that can take a
\* step eventually takes it.
FairSpec ==
    /\ FairInit
    /\ [][Next]_vars
    /\ WF_vars(Parser)
    /\ WF_vars(Resolver)
    /\ WF_vars(Aggregator)

----------------------------------------------------------------------------
\* Properties.

\* The table after the i-th applied message.
Post(i) == IF i = Len(applied) THEN accounts ELSE applied[i + 1].pre

AppliedOk(i, kind) == applied[i].msg.kind = kind /\ applied[i].res = "ok"

Balanced(acc) == acc.available + acc.held = acc.total

\* C1: in every reachable state of the pipeline every account satisfies
\* available + held = total.
C1_AvailablePlusHeldIsTotal ==
    \A c \in DOMAIN accounts : Balanced(accounts[c])

\* A dispute and a chargeback have both been applied to an account.
C1_Witness ==
    \E i, j \in DOMAIN applied :
        /\ AppliedOk(i, "dispute")
        /\ AppliedOk(j, "chargeback")
        /\ applied[i].msg.client_id = applied[j].msg.client_id

\* C2: in every reachable state every account satisfies held >= 0 and
\* available <= total.
C2_HeldNonNegative ==
    \A c \in DOMAIN accounts :
        accounts[c].held >= 0 /\ accounts[c].available <= accounts[c].total

\* C3: an account that is Frozen is Frozen in every later state.
C3_FrozenStaysFrozen ==
    [][\A c \in DOMAIN accounts :
          accounts[c].account_status = "Frozen" =>
              /\ c \in DOMAIN accounts'
              /\ accounts'[c].account_status = "Frozen"]_vars

\* A message was applied to an account after the chargeback that froze it.
C3_Witness ==
    \E i, j \in DOMAIN applied :
        /\ i < j
        /\ AppliedOk(i, "chargeback")
        /\ applied[j].msg.client_id = applied[i].msg.client_id
        /\ applied[j].res = "ok"

\* The Aggregator takes a withdrawal for an account that exists.
WithdrawalStep ==
    /\ Received("withdrawal")
    /\ Head(txq).client_id \in DOMAIN accounts
    /\ applied' # applied

\* C4: a withdrawal of more than the available funds leaves the account as
\* it was, is no error and does not stop the Aggregator; a withdrawal of at
\* most the available funds takes the amount from total and available.
\* Deposit 5 then withdrawal 10 ends at available 5, held 0, total 5.
C4_WithdrawalGuard ==
    /\ [][WithdrawalStep =>
            LET m == Head(txq)
                c == m.client_id
                acc == accounts[c]
            IN  /\ a_pc' = "run"
                /\ applied'[Len(applied')].res # "err"
                /\ m.amount > acc.available => accounts' = accounts
                /\ m.amount <= acc.available =>
                      accounts' = [accounts EXCEPT ![c] =
                          AccountDetails(acc.account_status,
                                         acc.total - m.amount,
                                         acc.available - m.amount,
                                         acc.held)]]_vars
    /\ [](journal = ScenarioD /\ a_pc = "done" =>
            accounts = [c \in {1} |-> AccountDetails("Active", 5, 5, 0)])

\* The withdrawal of Scenario D was rejected and the pipeline has ended.
C4_Witness ==
    /\ journal = ScenarioD
    /\ a_pc = "done"
    /\ Len(applied) = 2
    /\ applied[2].res = "rejected"

\* The i-th and (i+1)-th applied messages are a dispute and a resolve of the
\* same client and amount, both applied.
DisputeThenResolve(i) ==
    /\ i + 1 \in DOMAIN applied
    /\ AppliedOk(i, "dispute")
    /\ AppliedOk(i + 1, "resolve")
    /\ applied[i].msg.client_id = applied[i + 1].msg.client_id
    /\ applied[i].msg.amount = applied[i + 1].msg.amount

\* The i-th and (i+1)-th look-ups answer the adjacent journal records
\* "dispute c,t" and "resolve c,t".
AdjacentDisputeResolve(i) ==
    /\ i + 1 \in DOMAIN lookups
    /\ lookups[i].req.kind = "dispute"
    /\ lookups[i + 1].req.kind = "resolve"
    /\ lookups[i + 1].req.idx = lookups[i].req.idx + 1
    /\ lookups[i].req.client_id = lookups[i + 1].req.client_id
    /\ lookups[i].req.transaction_id = lookups[i + 1].req.transaction_id

\* C5: a Dispute(amount) immediately followed by a Resolve(amount) of the
\* same client leaves the account table as it was before the dispute; and
\* for adjacent journal records "dispute c,t", "resolve c,t" the Resolver
\* answers both or neither, with the same amount.
C5_DisputeResolveRestores ==
    /\ \A i \in DOMAIN applied :
          DisputeThenResolve(i) => Post(i + 1) = applied[i].pre
    /\ \A i \in DOMAIN lookups :
          AdjacentDisputeResolve(i) =>
              /\ lookups[i].ok = lookups[i + 1].ok
              /\ lookups[i].amount = lookups[i + 1].amount

\* The Resolver answered "dispute c,t", "resolve c,t" and the Aggregator
\* applied the two messages one after the other.
C5_Witness ==
    \E i \in DOMAIN applied, k \in DOMAIN lookups :
        /\ DisputeThenResolve(i)
        /\ AdjacentDisputeResolve(k)
        /\ lookups[k].ok
        /\ applied[i].msg.idx = lookups[k].req.idx
        /\ applied[i + 1].msg.idx = lookups[k + 1].req.idx

\* The i-th applied message is a dispute, resolve or chargeback for a client
\* that had no account.
UnknownAccount(i) ==
    /\ applied[i].msg.kind \in DisputeTypes
    /\ applied[i].msg.client_id \notin DOMAIN applied[i].pre

\* C6: a Dispute, Resolve or Chargeback for a client without an account
\* returns an error, creates no account and leaves every account as it was.
C6_UnknownAccountRejected ==
    \A i \in DOMAIN applied :
        UnknownAccount(i) =>
            /\ applied[i].res = "err"
            /\ Post(i) = applied[i].pre

\* Such a message was applied while another client had an account.
C6_Witness ==
    \E i \in DOMAIN applied :
        /\ UnknownAccount(i)
        /\ DOMAIN applied[i].pre # {}

\* C7: a look-up answered from the cache and the same look-up answered by a
\* re-scan after evicting the entry have the same outcome.
C7_HitEqualsMiss ==
    (r_pc = "recv" /\ lookq # <<>>
        /\ Head(lookq).transaction_id \in DOMAIN cache) =>
        LET req == Head(lookq)
            hit == FindDisputeAmount(cache, journal, req.client_id,
                                     req.transaction_id)
            miss == FindDisputeAmount(
                        RemoveFromCache(cache, req.transaction_id), journal,
                        req.client_id, req.transaction_id)
        IN  /\ hit.ok = miss.ok
            /\ hit.amount = miss.amount

\* The first deposit or withdrawal record of client c with transaction id t;
\* 0 when the journal has none.
RECURSIVE FirstRecordOf(_, _, _, _)
FirstRecordOf(jr, i, c, t) ==
    IF i > Len(jr) THEN 0
    ELSE IF /\ ParseType(jr[i].ty).ok
            /\ ParseType(jr[i].ty).v \in DepositTypes
            /\ ParseDepositOrWithdrawal(jr[i]).ok
            /\ ParseDepositOrWithdrawal(jr[i]).client_id = c
            /\ ParseDepositOrWithdrawal(jr[i]).transaction_id = t
    THEN i
    ELSE FirstRecordOf(jr, i + 1, c, t)

\* C8: every message the Resolver emits for a request (c, t) carries the
\* amount of the first deposit or withdrawal record of client c with
\* transaction id t, and no message is emitted when there is no such record.
C8_EmittedAmountIsOfRecord ==
    \A i \in DOMAIN lookups :
        lookups[i].ok =>
            LET j == FirstRecordOf(journal, 1, lookups[i].req.client_id,
                                   lookups[i].req.transaction_id)
            IN  /\ j # 0
                /\ lookups[i].amount = ParseDepositOrWithdrawal(journal[j]).amount

AllDone == p_pc # "run" /\ r_pc = "done" /\ a_pc = "done"

\* C9: under fair scheduling of the three workers all of them terminate and
\* the Aggregator returns the account table, for every journal, with or
\* without a parse error; no reachable state is a deadlock.
C9_Terminates ==
    /\ <>AllDone
    /\ [](AllDone \/ ENABLED Next)

\* The pipeline has ended after a parse error, with messages applied that
\* were enqueued before it.
C9_Witness ==
    /\ AllDone
    /\ p_pc = "failed"
    /\ \E i \in DOMAIN applied : applied[i].msg.by = "resolver"

\* C10: the Aggregator terminates only when the Parser and the Resolver have
\* dropped their senders and the transaction channel is empty; the Resolver
\* terminates only when the Parser has dropped its sender and the look-up
\* channel is empty; every message enqueued is consumed and no send finds
\* its receiver gone.
C10_NoEarlyExit ==
    /\ a_pc = "done" =>
          /\ ParserExited
          /\ r_pc = "done"
          /\ txq = <<>>
          /\ Len(applied) = Len(enq)
    /\ r_pc = "done" =>
          /\ ParserExited
          /\ lookq = <<>>
    /\ send_fail = 0

\* The pipeline has ended having applied messages of both producers.
C10_Witness ==
    /\ AllDone
    /\ \E i, j \in DOMAIN applied :
          applied[i].msg.by = "parser" /\ applied[j].msg.by = "resolver"

\* C11: the Aggregator applies the messages in exactly the order in which
\* they were put on the transaction channel, one message per step: the
\* applied messages are the front of the enqueued ones and the channel holds
\* the rest; so the Parser's messages are applied in journal order, and so
\* are the Resolver's.
C11_AppliedInQueueOrder ==
    /\ Len(applied) <= Len(enq)
    /\ \A i \in DOMAIN applied : applied[i].msg = enq[i]
    /\ txq = SubSeq(enq, Len(applied) + 1, Len(enq))
    /\ \A i, j \in DOMAIN applied :
          (i < j /\ applied[i].msg.by = applied[j].msg.by) =>
             applied[i].msg.idx < applied[j].msg.idx

\* A Resolver message was applied between two messages of the Parser.
C11_Witness ==
    /\ Len(applied) = 3
    /\ applied[1].msg.by = "parser"
    /\ applied[2].msg.by = "resolver"
    /\ applied[3].msg.by = "parser"

\* The journal 'deposit c,t,a; dispute c,t; withdrawal c,t2,a'.
DisputeRaceJournal ==
    << Plain("deposit", 1, 1, 5), LookUpRec("dispute", 1, 1),
       Plain("withdrawal", 1, 2, 5) >>

\* The Resolver holds the Dispute message while the Parser is at the
\* withdrawal record.
DisputeRacePoint ==
    /\ journal = DisputeRaceJournal
    /\ p_pc = "run"
    /\ p_idx = 2
    /\ r_pc = "send"
    /\ r_msg.kind = "dispute"

\* C12: for the journal 'deposit c,t,a; dispute c,t; withdrawal c,t2,a' the
\* Dispute and the later Withdrawal can be enqueued in either order (where
\* the Resolver holds the Dispute and the Parser is at the withdrawal, both
\* sends are possible), and the order decides the final account: Dispute
\* first, the withdrawal is rejected and the account ends at available 0,
\* held a, total a; Withdrawal first, it is accepted and the account ends at
\* available -a, held a, total 0.
C12_OrderDecidesOutcome ==
    /\ DisputeRacePoint => (ENABLED ResolverSend) /\ (ENABLED ParseWithdrawal)
    /\ (journal = DisputeRaceJournal /\ AllDone) =>
          /\ Len(applied) = 3
          /\ {applied[2].msg.kind, applied[3].msg.kind} =
                {"dispute", "withdrawal"}
          /\ applied[2].msg.kind = "dispute" =>
                /\ applied[3].res = "rejected"
                /\ accounts = [c \in {1} |-> AccountDetails("Active", 5, 0, 5)]
          /\ applied[2].msg.kind = "withdrawal" =>
                /\ applied[3].res = "ok"
                /\ accounts = [c \in {1} |-> AccountDetails("Active", 0, -5, 5)]

\* The deposit has been applied; the Dispute and the Withdrawal are both
\* ready to be sent.
C12_Witness ==
    /\ DisputeRacePoint
    /\ Len(applied) = 1
    /\ ENABLED ResolverSend
    /\ ENABLED ParseWithdrawal

\* The two ends of the race.
C12_DisputeFirstEnd ==
    /\ journal = DisputeRaceJournal /\ AllDone
    /\ applied[2].msg.kind = "dispute"

C12_WithdrawalFirstEnd ==
    /\ journal = DisputeRaceJournal /\ AllDone
    /\ applied[2].msg.kind = "withdrawal"

\* The step is a look-up that did not find its transaction.
FailedLookUpStep ==
    /\ Len(lookups') = Len(lookups) + 1
    /\ ~lookups'[Len(lookups')].ok

\* The Resolver has sent, or holds, a message for the request of record i.
ResolverAnswered(i) ==
    \/ \E k \in DOMAIN enq : enq[k].by = "resolver" /\ enq[k].idx = i
    \/ r_pc = "send" /\ r_msg.idx = i

\* C13: a look-up that does not find its transaction leaves the cache, the
\* transaction channel and the account table as they were and the Resolver
\* goes back to receiving; no message is ever emitted for that request; and
\* the journal 'dispute 9,1' alone ends with an empty account table.
C13_FailedLookUpDropsRequest ==
    /\ [][FailedLookUpStep =>
            /\ cache' = cache
            /\ txq' = txq
            /\ enq' = enq
            /\ accounts' = accounts
            /\ r_pc' = "recv"
            /\ r_msg' = NoMsg]_vars
    /\ [](\A k \in DOMAIN lookups :
            ~lookups[k].ok => ~ResolverAnswered(lookups[k].req.idx))
    /\ []((journal = ScenarioE /\ AllDone) =>
            /\ accounts = EmptyMap
            /\ enq = <<>>
            /\ cache = EmptyMap)

\* Scenario E has ended: its one look-up failed.
C13_Witness ==
    /\ journal = ScenarioE
    /\ AllDone
    /\ Len(lookups) = 1
    /\ ~lookups[1].ok

\* The k-th look-up was of one of the given kinds, for transaction t, and
\* found its amount.
LookUpSucceeded(k, kinds, t) ==
    /\ lookups[k].ok
    /\ lookups[k].req.kind \in kinds
    /\ lookups[k].req.transaction_id = t

\* A Dispute look-up for t has succeeded and no later Resolve or Chargeback
\* look-up for t has.
UnderDispute(t) ==
    \E k \in DOMAIN lookups :
       /\ LookUpSucceeded(k, {"dispute"}, t)
       /\ \A j \in DOMAIN lookups :
             j > k => ~LookUpSucceeded(j, {"resolve", "chargeback"}, t)

\* C14: whenever the Resolver is between two requests, the cache holds
\* transaction id t exactly when a Dispute look-up for t has succeeded and no
\* later Resolve or Chargeback look-up for t has succeeded.
C14_CacheHoldsOpenDisputes ==
    r_pc # "send" =>
       \A t \in DOMAIN cache \cup
                { lookups[k].req.transaction_id : k \in DOMAIN lookups } :
          t \in DOMAIN cache <=> UnderDispute(t)

\* A dispute was answered, and then a resolve or chargeback of the same
\* transaction was answered and sent: the entry is gone.
C14_Witness ==
    /\ r_pc = "recv"
    /\ Len(lookups) = 2
    /\ LookUpSucceeded(1, {"dispute"}, 1)
    /\ LookUpSucceeded(2, {"resolve", "chargeback"}, 1)
    /\ cache = EmptyMap

\* Rows of the journal as the re-scan sees them.  A deposit/withdrawal row
\* is one whose type field is exactly deposit or withdrawal.
ScanRow(i) == journal[i].ty.q = "plain" /\ journal[i].ty.w \in DepositTypes

RowParsed(i) == ParseDepositOrWithdrawal(journal[i])

RowMatches(i, c, t) ==
    /\ ScanRow(i)
    /\ RowParsed(i).ok
    /\ RowParsed(i).client_id = c
    /\ RowParsed(i).transaction_id = t

RowLarger(i, t) ==
    /\ ScanRow(i)
    /\ journal[i].tx.q = "plain"
    /\ journal[i].tx.v > t

RowMalformed(i) == ScanRow(i) /\ ~RowParsed(i).ok

MinOf(S) == CHOOSE x \in S : \A y \in S : x <= y

\* The k-th look-up was a re-scan, and it ended at the first row of stops:
\* found when that row matches the request, not found when it does not or
\* when there is no such row.
RescanEndsAtFirstOf(k, stops) ==
    LET c == lookups[k].req.client_id
        t == lookups[k].req.transaction_id
    IN  IF stops # {} /\ RowMatches(MinOf(stops), c, t)
        THEN /\ lookups[k].ok
             /\ lookups[k].src = MinOf(stops)
             /\ lookups[k].amount = RowParsed(MinOf(stops)).amount
        ELSE ~lookups[k].ok

IdsNonDecreasing ==
    \A i, j \in DOMAIN journal :
       (i < j /\ ScanRow(i) /\ ScanRow(j)
          /\ journal[i].tx.q = "plain" /\ journal[j].tx.q = "plain") =>
          journal[i].tx.v <= journal[j].tx.v

RequestExists(k) ==
    \E i \in DOMAIN journal :
       RowMatches(i, lookups[k].req.client_id, lookups[k].req.transaction_id)

C15_EarlyStopReached ==
    \E k \in DOMAIN lookups :
       /\ ~lookups[k].hit
       /\ ~lookups[k].ok
       /\ RequestExists(k)
       /\ \A i \in DOMAIN journal : ~RowMalformed(i)

\* The type of the i-th record, embedded spaces aside; "unknown" for a type
\* that is none of the five.
RecKind(i) ==
    IF journal[i].ty.q \in {"plain", "spaced"} /\ journal[i].ty.w \in RecordTypes
    THEN journal[i].ty.w
    ELSE "unknown"

SentByParser(m) == m.by = "parser"

\* What the Parser has put on the transaction channel and on the look-up
\* channel so far.
ParserTxMessages == SelectSeq(enq, SentByParser)

ParserLookUps == [k \in DOMAIN lookups |-> lookups[k].req] \o lookq

RowsRead(kinds) == { i \in 1..p_idx : RecKind(i) \in kinds }

IndexIncreasing(s) ==
    \A i, j \in DOMAIN s : i < j => s[i].idx < s[j].idx

\* C16: the messages the Parser has emitted are, in journal order, exactly
\* one Deposit/Withdrawal TransactionMessage for each deposit/withdrawal
\* record it has read, carrying the record's client and amount, and exactly
\* one DisputeLookUpMessage of the same kind for each dispute/resolve/
\* chargeback record it has read, carrying the record's client and
\* transaction id; a record of any other type gives no message and is not
\* the record a parse error stops at.
C16_OneMessagePerRecord ==
    /\ Len(ParserTxMessages) = Cardinality(RowsRead(DepositTypes))
    /\ IndexIncreasing(ParserTxMessages)
    /\ \A k \in DOMAIN ParserTxMessages :
          LET m == ParserTxMessages[k]
          IN  /\ m.idx \in RowsRead(DepositTypes)
              /\ m.kind = RecKind(m.idx)
              /\ m.client_id = journal[m.idx].cl.v
              /\ m.amount = journal[m.idx].am.v
    /\ Len(ParserLookUps) = Cardinality(RowsRead(DisputeTypes))
    /\ IndexIncreasing(ParserLookUps)
    /\ \A k \in DOMAIN ParserLookUps :
          LET m == ParserLookUps[k]
          IN  /\ m.idx \in RowsRead(DisputeTypes)
              /\ m.kind = RecKind(m.idx)
              /\ m.client_id = journal[m.idx].cl.v
              /\ m.transaction_id = journal[m.idx].tx.v
    /\ p_pc = "failed" => RecKind(p_idx + 1) # "unknown"

\* The Parser has read a record of unknown type between a deposit and a
\* dispute, and reached the end of the journal.
C16_Witness ==
    /\ p_pc = "done"
    /\ p_idx = 3
    /\ RecKind(1) \in DepositTypes
    /\ RecKind(2) = "unknown"
    /\ RecKind(3) \in DisputeTypes
    /\ Len(ParserTxMessages) = 1
    /\ Len(ParserLookUps) = 1

\* The i-th record is of a recognized type and one of the fields its type
\* needs does not parse.
MalformedRecord(i) ==
    /\ RecKind(i) # "unknown"
    /\ \/ ~ParseInt(journal[i].cl).ok
       \/ ~ParseInt(journal[i].tx).ok
       \/ RecKind(i) \in DepositTypes /\ ~ParseAmount(journal[i].am).ok

\* C17: the Parser never reads past a malformed record of recognized type:
\* at such a record its only step is to stop, and once stopped it sits at
\* that record with both senders dropped and no message emitted for that
\* record or a later one; the Resolver and the Aggregator can always go on,
\* and when they have terminated every look-up enqueued before the failure
\* has been answered and every message enqueued has been applied.
C17_ParseErrorStopsParserOnly ==
    /\ \A i \in 1..p_idx : ~MalformedRecord(i)
    /\ (HasRecord /\ MalformedRecord(p_idx + 1)) =>
          /\ ENABLED ParseFail
          /\ ~ENABLED ParseSkip
    /\ p_pc = "failed" =>
          /\ MalformedRecord(p_idx + 1)
          /\ ParserExited
          /\ \A k \in DOMAIN enq : enq[k].idx <= p_idx
          /\ \A k \in DOMAIN ParserLookUps : ParserLookUps[k].idx <= p_idx
          /\ AllDone \/ ENABLED Next
    /\ (p_pc = "failed" /\ AllDone) =>
          /\ lookq = <<>>
          /\ txq = <<>>
          /\ Len(lookups) = Cardinality(RowsRead(DisputeTypes))
          /\ Len(applied) = Len(enq)
          /\ Len(enq) = Cardinality(RowsRead(DepositTypes))
                          + Cardinality({ k \in DOMAIN lookups : lookups[k].ok })

\* The Parser stopped at the third record; the deposit and the dispute
\* before it were applied and the pipeline has ended.
C17_Witness ==
    /\ p_pc = "failed"
    /\ p_idx = 2
    /\ AllDone
    /\ Len(applied) = 2
    /\ applied[2].msg.by = "resolver"
    /\ accounts # EmptyMap

\* The clients for which a deposit or a withdrawal was applied.
ClientsWithAppliedTx ==
    { applied[i].msg.client_id :
        i \in { k \in DOMAIN applied :
                  applied[k].msg.kind \in DepositTypes /\ applied[k].res = "ok" } }

\* C18: when the pipeline has ended, the account table has a row for a
\* client exactly when a deposit or a withdrawal of that client was applied;
\* a rejected withdrawal leaves no row.
C18_RowIffTransactionApplied ==
    AllDone => DOMAIN accounts = ClientsWithAppliedTx

\* Scenarios B and C of the specification.
ScenarioB == << Plain("deposit", 1, 1, 5), LookUpRec("dispute", 1, 1) >>

ScenarioC == ScenarioB \o << LookUpRec("chargeback", 1, 1) >>

\* C19: every run of 'deposit 1,1,5; dispute 1,1; chargeback 1,1' that has
\* ended has applied the three messages in this order and left client 1 at
\* available 0, held 0, total 0, Frozen; without the chargeback record it
\* has left client 1 at available 0, held 5, total 5, Active.
C19_ScenarioOutcomes ==
    /\ (journal = ScenarioC /\ AllDone) =>
          /\ Len(applied) = 3
          /\ \A i \in 1..3 : applied[i].res = "ok"
          /\ accounts = [c \in {1} |-> AccountDetails("Frozen", 0, 0, 0)]
    /\ (journal = ScenarioB /\ AllDone) =>
          /\ Len(applied) = 2
          /\ \A i \in 1..2 : applied[i].res = "ok"
          /\ accounts = [c \in {1} |-> AccountDetails("Active", 5, 0, 5)]

\* Scenario C has ended with the chargeback applied.
C19_Witness ==
    /\ journal = ScenarioC
    /\ AllDone
    /\ Len(applied) = 3
    /\ AppliedOk(3, "chargeback")
    /\ accounts[1].account_status = "Frozen"

\* Scenario B has ended with the dispute applied.
C19_ScenarioBEnd ==
    /\ journal = ScenarioB
    /\ AllDone
    /\ AppliedOk(2, "dispute")

\* The record with all whitespace removed from its client id, transaction id
\* and amount.
StripFields(rec) ==
    [rec EXCEPT !.cl = StripWs(@), !.tx = StripWs(@), !.am = StripWs(@)]

DepositRows == { i \in DOMAIN journal : RecKind(i) \in DepositTypes }

Balances(acc) ==
    [available |-> acc.available, held |-> acc.held, total |-> acc.total]

RuleAccepts(kind, b, amount) == kind = "withdrawal" => amount <= b.available

RuleEffect(kind, b, amount) ==
    CASE kind = "deposit" ->
           [b EXCEPT !.available = @ + amount, !.total = @ + amount]
      [] kind = "withdrawal" ->
           IF amount <= b.available
           THEN [b EXCEPT !.available = @ - amount, !.total = @ - amount]
           ELSE b
      [] kind = "dispute" ->
           [b EXCEPT !.held = @ + amount, !.available = @ - amount]
      [] kind = "resolve" ->
           [b EXCEPT !.held = @ - amount, !.available = @ + amount]
      [] kind = "chargeback" ->
           [b EXCEPT !.held = @ - amount, !.total = @ - amount]

\* The i-th applied message met an account of its client with this status.
AppliedOn(i, status) ==
    /\ applied[i].msg.client_id \in DOMAIN applied[i].pre
    /\ applied[i].pre[applied[i].msg.client_id].account_status = status

\* C21: a message applied to an existing account changes available, held
\* and total by the rule of its kind, whether the account is Active or
\* Frozen; on a Frozen account a withdrawal is accepted exactly when its
\* amount is at most available, and the other four kinds are never refused.
C21_FrozenAccountNotSpecial ==
    \A i \in DOMAIN applied :
       \A status \in {"Active", "Frozen"} :
          AppliedOn(i, status) =>
             LET m == applied[i].msg
                 b == Balances(applied[i].pre[m.client_id])
             IN  /\ Balances(Post(i)[m.client_id]) =
                       RuleEffect(m.kind, b, m.amount)
                 /\ applied[i].res = "ok" <=> RuleAccepts(m.kind, b, m.amount)

\* A withdrawal was accepted on a Frozen account.
C21_Witness ==
    \E i \in DOMAIN applied :
       /\ AppliedOn(i, "Frozen")
       /\ AppliedOk(i, "withdrawal")
       /\ applied[i].msg.amount > 0

\* Each of the other kinds was applied to a Frozen account.
C21_FrozenReached(kind) ==
    \E i \in DOMAIN applied : AppliedOn(i, "Frozen") /\ AppliedOk(i, kind)

C21_FrozenDeposit == C21_FrozenReached("deposit")
C21_FrozenDispute == C21_FrozenReached("dispute")
C21_FrozenResolve == C21_FrozenReached("resolve")
C21_FrozenChargeback == C21_FrozenReached("chargeback")

\* The errors a worker contains: a withdrawal refused for insufficient
\* funds or a dispute, resolve or chargeback for an unknown account (the
\* Aggregator), a look-up that finds nothing (the Resolver).
AggregatorError(i) == applied[i].res \in {"rejected", "err"}

ResolverError(k) == ~lookups[k].ok

\* The k-th look-up was a re-scan that ended at a row that does not parse.
RescanMetMalformedRow(k) ==
    /\ ResolverError(k)
    /\ \E i \in DOMAIN journal :
          /\ RowMalformed(i)
          /\ \A j \in 1..(i - 1) :
                /\ ~RowMalformed(j)
                /\ ~RowLarger(j, lookups[k].req.transaction_id)
                /\ ~RowMatches(j, lookups[k].req.client_id,
                               lookups[k].req.transaction_id)

\* C22: the Aggregator and the Resolver end only when their input is
\* exhausted, whatever errors they met: after a refused withdrawal, an
\* unknown account or a failed look-up (a re-scan that met a malformed row
\* included) every message still on the worker's channel is received and
\* processed, and no send ever finds its receiver gone; the Parser ends
\* before the end of the journal only at a malformed record.
C22_ErrorsAreContained ==
    /\ a_pc = "done" => txq = <<>> /\ ParserExited /\ r_pc = "done"
    /\ r_pc = "done" => lookq = <<>> /\ ParserExited
    /\ \A i \in DOMAIN applied :
          AggregatorError(i) =>
             \/ a_pc = "run"
             \/ Len(applied) = Len(enq)
    /\ \A k \in DOMAIN lookups :
          ResolverError(k) =>
             \/ r_pc # "done"
             \/ Len(lookups) = Len(ParserLookUps)
    /\ (AllDone /\ p_pc = "done") =>
          /\ Len(lookups) = Cardinality(RowsRead(DisputeTypes))
          /\ Len(applied) = Cardinality(RowsRead(DepositTypes))
                + Cardinality({ k \in DOMAIN lookups : lookups[k].ok })
    /\ send_fail = 0
    /\ p_pc = "done" => p_idx = Len(journal)
    /\ p_pc = "failed" => MalformedRecord(p_idx + 1)

\* A re-scan met a malformed row and its look-up failed; the Resolver
\* answered the next look-up and the Aggregator applied its message.
C22_Witness ==
    /\ journal = RescanErrorJournal
    /\ AllDone
    /\ Len(lookups) = 2
    /\ RescanMetMalformedRow(1)
    /\ lookups[2].ok
    /\ Len(applied) = 2
    /\ AppliedOk(2, "dispute")

\* The Aggregator refused a withdrawal, or met an unknown account, and
\* applied a later message.
C22_AggregatorWentOn ==
    \E i, j \in DOMAIN applied :
       i < j /\ applied[i].res = "rejected" /\ applied[j].res = "ok"

C22_UnknownAccountWentOn ==
    \E i, j \in DOMAIN applied :
       i < j /\ applied[i].res = "err" /\ applied[j].res = "ok"

\* The account of client c in a table, a client without a row read as the
\* default account.
AccountOf(accs, c) == IF c \in DOMAIN accs THEN accs[c] ELSE Default

\* C23: the step that applies a message leaves the row of every other
\* client as it was, and of the row of the client it names it leaves: held
\* and status for a Deposit or Withdrawal, total and status for a Dispute or
\* Resolve, available for a Chargeback; a Dispute, Resolve or Chargeback for
\* a client without a row changes nothing.
C23_OnlyListedFieldsChange ==
    \A i \in DOMAIN applied :
       LET m == applied[i].msg
           pre == applied[i].pre
           post == Post(i)
           old == AccountOf(pre, m.client_id)
           new == AccountOf(post, m.client_id)
       IN  /\ \A c \in (DOMAIN pre \cup DOMAIN post) \ {m.client_id} :
                 c \in DOMAIN pre /\ c \in DOMAIN post /\ post[c] = pre[c]
           /\ DOMAIN pre \subseteq DOMAIN post
           /\ m.kind \in DepositTypes =>
                 /\ new.held = old.held
                 /\ new.account_status = old.account_status
           /\ m.kind \in {"dispute", "resolve"} =>
                 /\ new.total = old.total
                 /\ new.account_status = old.account_status
           /\ m.kind = "chargeback" => new.available = old.available
           /\ (m.kind \in DisputeTypes /\ m.client_id \notin DOMAIN pre) =>
                 post = pre

\* A chargeback was applied to the account of one client while another
\* client had an account.
C23_Witness ==
    \E i \in DOMAIN applied :
       /\ AppliedOk(i, "chargeback")
       /\ applied[i].msg.amount > 0
       /\ DOMAIN applied[i].pre = {1, 2}

\* Scenario A of the specification.
ScenarioA ==
    << Plain("deposit", 1, 1, 5), Plain("deposit", 2, 2, 3),
       Plain("withdrawal", 1, 3, 1) >>

DisputeResolveJournal == ScenarioB \o << LookUpRec("resolve", 1, 1) >>

\* The journals of the determinism claim: every journal of deposits,
\* withdrawals, unknown types and malformed rows, Scenario A, and two
\* journals with look-ups; each with every capacity of the transaction
\* channel from 1 up.
DetJournals ==
    SeqsUpTo(DepositRecords \cup OddRecords, MaxLen)
       \cup {ScenarioA, ScenarioC, DisputeResolveJournal}

DetInit == journal \in DetJournals /\ cap \in 1..TxQueueCap /\ Start

DetSpec == DetInit /\ [][Next]_vars

\* One worker reading the journal from record i on and applying each deposit
\* and withdrawal as it reads it; it stops where parse_journal stops.
RECURSIVE SequentialFrom(_, _, _)
SequentialFrom(jr, i, accs) ==
    IF i > Len(jr) THEN accs
    ELSE LET ty == ParseType(jr[i].ty)
             d == ParseDepositOrWithdrawal(jr[i])
         IN  IF ~ty.ok \/ ty.v \in DisputeTypes
             THEN SequentialFrom(jr, i + 1, accs)
             ELSE IF ~d.ok THEN accs
             ELSE IF ty.v = "deposit"
             THEN SequentialFrom(jr, i + 1,
                     Accounts_deposit(accs, d.client_id, d.amount).accounts)
             ELSE SequentialFrom(jr, i + 1,
                     Accounts_withdraw(accs, d.client_id, d.amount).accounts)

SequentialLedger(jr) == SequentialFrom(jr, 1, EmptyMap)

NoLookUpRecords == \A i \in DOMAIN journal : RecKind(i) \notin DisputeTypes

\* C24: for a journal without dispute, resolve or chargeback records, every
\* run that has ended, under every interleaving and every capacity of the
\* transaction channel, has left the table that applying the deposits and
\* withdrawals one after the other in journal order gives (up to the first
\* malformed record, where the Parser stops); Scenario A leaves client 1 at
\* 4 and client 2 at 3, both Active with nothing held.
C24_FinalTableIsSequential ==
    /\ (NoLookUpRecords /\ AllDone) => accounts = SequentialLedger(journal)
    /\ (journal = ScenarioA /\ AllDone) =>
          accounts = [c \in {1, 2} |->
                        IF c = 1 THEN AccountDetails("Active", 4, 4, 0)
                                 ELSE AccountDetails("Active", 3, 3, 0)]

\* Scenario A has ended over a channel of capacity 1.
C24_Witness ==
    /\ journal = ScenarioA
    /\ cap = 1
    /\ AllDone
    /\ Len(applied) = 3
    /\ AppliedOk(3, "withdrawal")

\* Scenario A has ended over a channel of the largest capacity.
C24_WidestChannelEnd ==
    /\ journal = ScenarioA
    /\ cap = TxQueueCap
    /\ AllDone

\* C25: when the Aggregator has applied the message the Resolver emitted
\* for the record at journal position i, it has already applied the Deposit
\* or Withdrawal message of every deposit/withdrawal record before position
\* i; and when the Resolver takes the request of record i, those messages
\* are already on the transaction channel or applied.
C25_ResolverMessageAfterEarlierTransactions ==
    /\ \A k \in DOMAIN applied :
          applied[k].msg.by = "resolver" =>
             \A j \in 1..(applied[k].msg.idx - 1) :
                RecKind(j) \in DepositTypes =>
                   \E h \in 1..(k - 1) :
                      /\ applied[h].msg.by = "parser"
                      /\ applied[h].msg.idx = j
    /\ \A k \in DOMAIN lookups :
          \A j \in 1..(lookups[k].req.idx - 1) :
             RecKind(j) \in DepositTypes =>
                \E h \in DOMAIN enq : enq[h].by = "parser" /\ enq[h].idx = j

\* A Dispute for the third record was applied after the messages of the two
\* deposits before it.
C25_Witness ==
    /\ Len(applied) = 3
    /\ applied[3].msg.by = "resolver"
    /\ applied[3].msg.idx = 3
    /\ applied[1].msg.by = "parser"
    /\ applied[2].msg.by = "parser"
    /\ applied[3].res = "ok"

\* C26: a look-up answered by a re-scan takes its amount from a record that
\* lies before the requesting record in the journal.
C26_SourceBeforeRequest ==
    \A k \in DOMAIN lookups :
       (lookups[k].ok /\ ~lookups[k].hit) =>
          lookups[k].src < lookups[k].req.idx

\* Before the k-th look-up, a Dispute look-up for t had succeeded and no
\* Resolve or Chargeback look-up for t had succeeded since.
UnderDisputeBefore(k, t) ==
    \E j \in 1..(k - 1) :
       /\ LookUpSucceeded(j, {"dispute"}, t)
       /\ \A h \in (j + 1)..(k - 1) :
             ~LookUpSucceeded(h, {"resolve", "chargeback"}, t)

\* C27: the Resolver answers a resolve or chargeback request for
\* transaction t, and emits its message, only when t is under dispute at
\* that moment.
C27_ResolveOnlyUnderDispute ==
    \A k \in DOMAIN lookups :
       (lookups[k].ok /\ lookups[k].req.kind \in {"resolve", "chargeback"}) =>
          UnderDisputeBefore(k, lookups[k].req.transaction_id)

\* The Parser emitted the Deposit or Withdrawal message of row j, a row of
\* client c and transaction t, and no row before j makes a re-scan for
\* (c, t) stop early.
EmittedAndInReach(j, c, t) ==
    /\ \E h \in DOMAIN ParserTxMessages :
          ParserTxMessages[h].idx = j /\ ParserTxMessages[h].client_id = c
    /\ journal[j].tx.v = t
    /\ \A i \in 1..(j - 1) : ~RowLarger(i, t) /\ ~RowMalformed(i)

\* C28: the re-scan treats as a deposit/withdrawal record every record the
\* Parser accepted as one: a look-up for (c, t) that misses the cache finds
\* the transaction whenever the Parser emitted the message of a record of
\* client c and transaction t that lies before the requesting record and is
\* not hidden behind a record with a larger id.
C28_EmittedTransactionIsFound ==
    \A k \in DOMAIN lookups :
       (/\ ~lookups[k].hit
        /\ \E j \in 1..(lookups[k].req.idx - 1) :
              EmittedAndInReach(j, lookups[k].req.client_id,
                                lookups[k].req.transaction_id)) =>
          lookups[k].ok

====
